---- MODULE Spec2Model ----
(***************************************************************************)
(* The `mint` command of platyplex-cli (src/src/mint.ts): a sequential     *)
(* loop over mint targets with a retry cache keyed by list position,       *)
(* bounded retries around the SDK's mintNFT, and a cache file rewritten    *)
(* after every recorded item.  Successive invocations of the command share *)
(* the cache file; a process can be interrupted at any await.              *)
(***************************************************************************)
EXTENDS Integers, Sequences, FiniteSets, TLC

\* ---------------------------------------------------------------- bounds
\* Longest target list of one invocation.
MaxTargets == 2

\* Cache positions 0 .. MaxTargets-1 (the loop variable i is 0-based).
Idx == 0 .. (MaxTargets - 1)

\* ------------------------------------------------------------ data model
\* An absent optional field (undefined in the source).
NoVal == "none"

Paths == {"a", "b"}

\* JavaScript truthiness of an optional string: undefined and "" are falsy.
Truthy(v) == v \notin {NoVal, ""}

\* interface MintResult: every field optional.
MkResult(t, tx, m, md, e, n) ==
    [target |-> t, txId |-> tx, mint |-> m, metadata |-> md, error |-> e, name |-> n]

\* cache[i] of an index the cache object has no key for.
Absent == MkResult(NoVal, NoVal, NoVal, NoVal, NoVal, NoVal)

\* let cache: MintRetryCache = {}
EmptyCache == [j \in Idx |-> Absent]

\* The payload utils.metadata.lookup returns for a URI, by its name field.
MetaOf(p) == IF p = "a" THEN "name_a" ELSE "name_b"

\* A payload findTargets attached to the target before the loop runs.
PreMeta(p) == IF p = "a" THEN "local_a" ELSE "local_b"

\* The receipt actions.mintNFT resolves to: txId, and mint and metadata
\* addresses already in base58.
MintResponse(p) ==
    IF p = "a"
    THEN [txId |-> "tx_a", mint |-> "mint_a", metadata |-> "md_a"]
    ELSE [txId |-> "tx_b", mint |-> "mint_b", metadata |-> "md_b"]

\* The elements of metas: { path, type, meta? }.
Targets ==
    { [path |-> p, type |-> "Uri", meta |-> m] :
          p \in Paths, m \in {NoVal} }
    \cup { [path |-> p, type |-> "Uri", meta |-> PreMeta(p)] : p \in Paths }
    \cup { [path |-> p, type |-> "File", meta |-> NoVal] : p \in Paths }

TargetLists == UNION { [1..n -> Targets] : n \in 1..MaxTargets }

LookupOutcomes == {"ok", "invalid", "throw"}

\* new Option('--env <env>').choices(['devnet', 'testnet', 'mainnet-beta'])
Envs == {"devnet", "testnet", "mainnet-beta"}

\* The options of registerPrefix that loadConfig reads.
MkOptions(e, u, k, l) == [env |-> e, rpcUrl |-> u, keypair |-> k, logLevel |-> l]

NoOptions == MkOptions(NoVal, NoVal, NoVal, NoVal)

\* The command lines: each option given or not.
Argvs ==
    { MkOptions(e, u, k, l) :
          e \in Envs \cup {NoVal}, u \in {NoVal, "cli_url"},
          k \in {NoVal, "cli_keypair"}, l \in {NoVal, "debug"} }

\* configRaw.rpcUrl: no such key, or a map with an endpoint for devnet only.
NoRpcUrls == [e \in Envs |-> NoVal]

RpcUrlMaps == { NoRpcUrls, [NoRpcUrls EXCEPT !["devnet"] = "cfg_url_devnet"] }

\* interface Config, as loadJson(configPath) finds it; readable is FALSE
\* when loadJson throws.
MkConfig(r, e, k, u, l) ==
    [readable |-> r, env |-> e, keypair |-> k, rpcUrl |-> u, logLevel |-> l]

ConfigFiles ==
    { MkConfig(TRUE, e, k, u, l) :
          e \in Envs \cup {NoVal}, k \in {NoVal, "cfg_keypair"},
          u \in RpcUrlMaps, l \in {NoVal, "trace"} }
    \cup { MkConfig(FALSE, NoVal, NoVal, NoRpcUrls, NoVal) }

\* const DEFAULT_CONFIG = { env: 'mainnet-beta', logLevel: 'info' }
DefaultConfig == MkConfig(TRUE, "mainnet-beta", NoVal, NoRpcUrls, "info")

\* No ConfigContext yet.
NoCtx == MkOptions(NoVal, NoVal, NoVal, NoVal)

\* clusterApiUrl(env) of @solana/web3.js.
ClusterApiUrl(e) ==
    CASE e = "devnet" -> "api_devnet"
      [] e = "testnet" -> "api_testnet"
      [] OTHER -> "api_mainnet-beta"

VARIABLES
    file,        \* the retry cache file: position -> MintResult (Absent: no key)
    pc,          \* where the mint action is: idle, loop, lookup, mint, sleep, record, done, aborted
    metas,       \* the target list of the running invocation
    retry,       \* options.retry (false under --no-retry)
    retryCache,  \* whether --retry-cache <cache> is given (the same in every invocation)
    cache,       \* the in-memory MintRetryCache
    i,           \* the loop variable
    result,      \* the MintResult under construction
    success,     \* the retry loop's success flag
    retries,     \* the retry loop's remaining attempts
    errors,      \* the aggregate error counter
    loaded,      \* history: the cache as loaded at the start of the invocation
    cur,         \* history: the index most recently entered (not skipped)
    lookupRes,   \* history: per index, the lookup outcome of this invocation
    mintRes,     \* history: per index, none / failing / minted / exhausted
    calls,       \* history: the outcomes of the mintNFT calls made for index cur, in order
    sleeps,      \* history: sleep(2000) calls made for index cur
    visited,     \* history: the iterations of the loop so far, in order: index and whether skipped
    argv,        \* the options given on the command line (NoVal: not given)
    options,     \* the options object commander hands to the action
    configRaw,   \* the persisted config file
    ctx,         \* the ConfigContext loadConfig returns
    cpc          \* where configuration loading is: off, args, parsed, loaded, fatal

mintVars == << file, pc, metas, retry, retryCache, cache, i, result, success,
               retries, errors, loaded, cur, lookupRes, mintRes, calls, sleeps,
               visited >>

cfgVars == << argv, options, configRaw, ctx, cpc >>

vars == << mintVars, cfgVars >>

hist == << loaded, cur, lookupRes, mintRes, calls, sleeps >>

NoLookups == [j \in Idx |-> "none"]

\* The process-local state of a command that is not running.
Stopped ==
    /\ metas = << >>
    /\ retry = TRUE
    /\ cache = EmptyCache
    /\ i = 0
    /\ result = Absent
    /\ success = FALSE
    /\ retries = 0
    /\ errors = 0
    /\ loaded = EmptyCache
    /\ cur = 0
    /\ lookupRes = NoLookups
    /\ mintRes = NoLookups
    /\ calls = << >>
    /\ sleeps = 0
    /\ visited = << >>

\* Configuration loading is not under way.
ConfigOff ==
    /\ argv = NoOptions
    /\ options = NoOptions
    /\ configRaw = DefaultConfig
    /\ ctx = NoCtx
    /\ cpc = "off"

Init ==
    /\ file = EmptyCache
    /\ pc = "idle"
    /\ retryCache \in BOOLEAN
    /\ Stopped
    /\ ConfigOff

\* ------------------------------------------------------------ operations
\* if (retryCache && fs.existsSync(retryCache)) cache = loadJson(retryCache)
LoadCache(rc, f) == IF rc THEN f ELSE EmptyCache

\* A retry budget one short.
MaxAttemptsShort(r) == IF r THEN 4 ELSE 1

\* let retries = retry ? 5 : 1
MaxAttempts(r) == IF r THEN 5 ELSE 1

\* The loop variable left where it is.
NextIndexStuck(n) == n

\* for (let i = 0; i < metas.length; i++)
NextIndex(n) == n + 1

\* The File test dropped: a file target is handled as a URI.
IsFileTargetNever(m) == FALSE

\* if (meta.type === TargetType.File)
IsFileTarget(m) == m.type = "File"

\* Where the action is after fatalError(...): the process has exited, the
\* rest of the callback does not run.
FatalError == "aborted"

\* A skip keyed on the target: an entry counts only for the target it names.
ShouldProcessByTarget(c, j) ==
    ~(Truthy(c[j].txId) /\ c[j].target = metas[j + 1].path)

\* Any entry at all is taken as done: only absent indices are processed.
ShouldProcessAbsentOnly(c, j) == c[j] = Absent

\* The skip test dropped: every index is processed.
ShouldProcessAlways(c, j) == TRUE

\* The skip test on the error field instead of the txId.
ShouldProcessOnError(c, j) == c[j] = Absent \/ Truthy(c[j].error)

\* if (!cache[i]?.txId)
ShouldProcess(c, j) == ~Truthy(c[j].txId)

\* The loop condition without the success flag.
RetryLoopIgnoresSuccess(s, r) == r > 0

\* while (!success && retries > 0)
RetryLoopContinues(s, r) == ~s /\ r > 0

\* The wait taken after every failed attempt.
SleepsAlways(r) == TRUE

\* if (retries) { ...; await sleep(2000) }
SleepsAfterFailure(r) == r # 0

\* The four assignments of a successful attempt.
MintSuccessResult(res, meta, response) ==
    [res EXCEPT !.name = meta,
                !.mint = response.mint,
                !.metadata = response.metadata,
                !.txId = response.txId]

\* if (!success) { result.error = `Failed to mint`; errors++ }
FinalResult(res, s) == IF s THEN res ELSE [res EXCEPT !.error = "Failed to mint"]

\* The counter stepped for every recorded item.
ErrorsAfterAlways(e, s) == e + 1

ErrorsAfter(e, s) == IF s THEN e ELSE e + 1

\* The result merged into the entry already there: a field the result does
\* not set keeps its old value.
StoreResultMerged(c, j, res) ==
    [c EXCEPT ![j] = [f \in DOMAIN res |-> IF res[f] # NoVal THEN res[f] ELSE c[j][f]]]

\* The result stored at position 0 whatever the index.
StoreResultAtZero(c, j, res) == [c EXCEPT ![0] = res]

\* cache[i] = result
StoreResult(c, j, res) == [c EXCEPT ![j] = res]

\* The cache never written back.
SaveCacheNever(rc, f, c) == f

\* if (retryCache) saveJson(retryCache, cache)
SaveCache(rc, f, c) == IF rc THEN c ELSE f

\* The action callback up to the loop: options, cache load, findTargets.
StartRun ==
    /\ pc = "idle"
    /\ \E ts \in TargetLists, r \in BOOLEAN :
          /\ metas' = ts
          /\ retry' = r
    /\ cache' = LoadCache(retryCache, file)
    /\ loaded' = LoadCache(retryCache, file)
    /\ errors' = 0
    /\ i' = 0
    /\ pc' = "loop"
    /\ UNCHANGED << file, retryCache, result, success, retries, cur, lookupRes,
                    mintRes, calls, sleeps, visited >>
    /\ UNCHANGED cfgVars

\* An iteration whose cache entry has a txId: nothing but i++.
Skip ==
    /\ pc = "loop"
    /\ i < Len(metas)
    /\ ~ShouldProcess(cache, i)
    /\ i' = NextIndex(i)
    /\ visited' = Append(visited, [idx |-> i, skipped |-> TRUE])
    /\ UNCHANGED << file, pc, metas, retry, retryCache, cache, result, success,
                    retries, errors, hist >>
    /\ UNCHANGED cfgVars

\* An iteration that is not skipped, up to the first await or the fatal error.
Begin ==
    /\ pc = "loop"
    /\ i < Len(metas)
    /\ ShouldProcess(cache, i)
    /\ result' = [Absent EXCEPT !.target = metas[i + 1].path]
    /\ cur' = i
    /\ calls' = << >>
    /\ sleeps' = 0
    /\ visited' = Append(visited, [idx |-> i, skipped |-> FALSE])
    /\ pc' = IF IsFileTarget(metas[i + 1]) THEN FatalError ELSE "lookup"
    /\ UNCHANGED << file, metas, retry, retryCache, cache, i, success, retries,
                    errors, loaded, lookupRes, mintRes >>
    /\ UNCHANGED cfgVars

\* The lookup settles; the code runs on to the next await or the next i.
Lookup ==
    /\ pc = "lookup"
    /\ \E o \in LookupOutcomes :
          LET m  == CASE o = "ok"      -> MetaOf(metas[i + 1].path)
                      [] o = "invalid" -> NoVal
                      [] o = "throw"   -> metas[i + 1].meta
              re == CASE o = "ok"      -> result
                      [] o = "invalid" -> [result EXCEPT !.error = "Invalid metadata"]
                      [] o = "throw"   -> [result EXCEPT !.error = "Failed to fetch metadata"]
          IN  /\ metas' = [metas EXCEPT ![i + 1].meta = m]
              /\ result' = re
              /\ lookupRes' = [lookupRes EXCEPT ![i] = o]
              /\ IF Truthy(m)
                 THEN /\ success' = FALSE
                      /\ retries' = MaxAttempts(retry)
                      /\ pc' = IF RetryLoopContinues(FALSE, MaxAttempts(retry))
                               THEN "mint" ELSE "record"
                      /\ i' = i
                 ELSE /\ pc' = "loop"
                      /\ i' = NextIndex(i)
                      /\ UNCHANGED << success, retries >>
    /\ UNCHANGED << file, retry, retryCache, cache, errors, loaded, cur, mintRes,
                    calls, sleeps, visited >>
    /\ UNCHANGED cfgVars

\* actions.mintNFT resolves.
MintOk ==
    /\ pc = "mint"
    /\ result' = MintSuccessResult(result, metas[i + 1].meta,
                                   MintResponse(metas[i + 1].path))
    /\ success' = TRUE
    /\ calls' = Append(calls, "ok")
    /\ mintRes' = [mintRes EXCEPT ![i] = "minted"]
    /\ pc' = IF RetryLoopContinues(TRUE, retries) THEN "mint" ELSE "record"
    /\ UNCHANGED << file, metas, retry, retryCache, cache, i, retries, errors,
                    loaded, cur, lookupRes, sleeps, visited >>
    /\ UNCHANGED cfgVars

\* actions.mintNFT rejects.
MintFail ==
    /\ pc = "mint"
    /\ retries' = retries - 1
    /\ calls' = Append(calls, "fail")
    /\ mintRes' = [mintRes EXCEPT ![i] =
                      IF mintRes[i] = "minted" THEN "minted" ELSE "failing"]
    /\ pc' = IF SleepsAfterFailure(retries - 1) THEN "sleep"
             ELSE IF RetryLoopContinues(success, retries - 1) THEN "mint"
             ELSE "record"
    /\ UNCHANGED << file, metas, retry, retryCache, cache, i, result, success,
                    errors, loaded, cur, lookupRes, sleeps, visited >>
    /\ UNCHANGED cfgVars

\* await sleep(2000) returns.
Sleep ==
    /\ pc = "sleep"
    /\ sleeps' = sleeps + 1
    /\ pc' = IF RetryLoopContinues(success, retries) THEN "mint" ELSE "record"
    /\ UNCHANGED << file, metas, retry, retryCache, cache, i, result, success,
                    retries, errors, loaded, cur, lookupRes, mintRes, calls,
                    visited >>
    /\ UNCHANGED cfgVars

\* After the retry loop: the error of an exhausted item, cache[i] = result, save.
Record ==
    /\ pc = "record"
    /\ result' = FinalResult(result, success)
    /\ errors' = ErrorsAfter(errors, success)
    /\ cache' = StoreResult(cache, i, FinalResult(result, success))
    /\ file' = SaveCache(retryCache, file,
                         StoreResult(cache, i, FinalResult(result, success)))
    /\ mintRes' = [mintRes EXCEPT ![i] =
                      IF mintRes[i] = "minted" THEN "minted" ELSE "exhausted"]
    /\ i' = NextIndex(i)
    /\ pc' = "loop"
    /\ UNCHANGED << metas, retry, retryCache, success, retries, loaded, cur,
                    lookupRes, calls, sleeps, visited >>
    /\ UNCHANGED cfgVars

\* The loop ends: log.info(`Completed with ${errors} errors`).
Complete ==
    /\ pc = "loop"
    /\ i >= Len(metas)
    /\ pc' = "done"
    /\ UNCHANGED << file, metas, retry, retryCache, cache, i, result, success,
                    retries, errors, hist, visited >>
    /\ UNCHANGED cfgVars

\* The process-local state is gone when the process ends.
Reset ==
    /\ metas' = << >>
    /\ retry' = TRUE
    /\ cache' = EmptyCache
    /\ i' = 0
    /\ result' = Absent
    /\ success' = FALSE
    /\ retries' = 0
    /\ errors' = 0
    /\ loaded' = EmptyCache
    /\ cur' = 0
    /\ lookupRes' = NoLookups
    /\ mintRes' = NoLookups
    /\ calls' = << >>
    /\ sleeps' = 0
    /\ visited' = << >>

\* The process ends after the summary or after fatalError.
Exit ==
    /\ pc \in {"done", "aborted"}
    /\ pc' = "idle"
    /\ Reset
    /\ UNCHANGED << file, retryCache >>
    /\ UNCHANGED cfgVars

\* The process is interrupted while the loop is running.
Interrupt ==
    /\ pc \in {"loop", "lookup", "mint", "sleep", "record"}
    /\ pc' = "idle"
    /\ Reset
    /\ UNCHANGED << file, retryCache >>
    /\ UNCHANGED cfgVars

Next ==
    \/ StartRun
    \/ Skip
    \/ Begin
    \/ Lookup
    \/ MintOk
    \/ MintFail
    \/ Sleep
    \/ Record
    \/ Complete
    \/ Exit
    \/ Interrupt

Spec == Init /\ [][Next]_vars

\* a || b of JavaScript on optional strings.
Or(a, b) == IF Truthy(a) THEN a ELSE b

\* registerPrefix: commander fills in the default of --env.
ParsedOptions(a) == [a EXCEPT !.env = IF a.env = NoVal THEN "mainnet-beta" ELSE a.env]

\* const keypairPath = options.keypair || configRaw.keypair
ResolveKeypair(o, c) == Or(o.keypair, c.keypair)

\* const env = options.env || configRaw.env
ResolveEnv(o, c) == Or(o.env, c.env)

\* const rpcUrl = options.rpcUrl || configRaw.rpcUrl?.[env] || clusterApiUrl(env)
ResolveRpcUrl(o, c, e) == Or(o.rpcUrl, Or(c.rpcUrl[e], ClusterApiUrl(e)))

\* const logLevel = options.logLevel || configRaw.logLevel || 'info'
ResolveLogLevel(o, c) == Or(o.logLevel, Or(c.logLevel, "info"))

\* commander parses the command line and calls the action with the options.
ParseOptions ==
    /\ cpc = "args"
    /\ options' = ParsedOptions(argv)
    /\ cpc' = "parsed"
    /\ UNCHANGED << argv, configRaw, ctx, mintVars >>

\* loadConfig(options): the resolved context, or a fatal error.
LoadConfig ==
    /\ cpc = "parsed"
    /\ IF ~configRaw.readable
       THEN cpc' = "fatal" /\ ctx' = ctx
       ELSE IF ~Truthy(ResolveKeypair(options, configRaw))
       THEN cpc' = "fatal" /\ ctx' = ctx
       ELSE IF ~Truthy(ResolveEnv(options, configRaw))
       THEN cpc' = "fatal" /\ ctx' = ctx
       ELSE /\ ctx' = MkOptions(ResolveEnv(options, configRaw),
                                ResolveRpcUrl(options, configRaw,
                                              ResolveEnv(options, configRaw)),
                                ResolveKeypair(options, configRaw),
                                ResolveLogLevel(options, configRaw))
            /\ cpc' = "loaded"
    /\ UNCHANGED << argv, options, configRaw, mintVars >>

\* One invocation, from the command line to the loaded configuration, over
\* the command lines and the config files.
ConfigInit ==
    /\ file = EmptyCache
    /\ pc = "idle"
    /\ retryCache = FALSE
    /\ Stopped
    /\ argv \in Argvs
    /\ configRaw \in ConfigFiles
    /\ options = NoOptions
    /\ ctx = NoCtx
    /\ cpc = "args"

ConfigNext ==
    \/ ParseOptions
    \/ LoadConfig

ConfigSpec == ConfigInit /\ [][ConfigNext]_vars

\* One step of a running callback: synchronous code runs on, and a promise the
\* callback awaits (lookup, mintNFT, sleep) settles and resumes it.
Step ==
    \/ Skip
    \/ Begin
    \/ Lookup
    \/ MintOk
    \/ MintFail
    \/ Sleep
    \/ Record
    \/ Complete

\* Every external call returns and the event loop resumes the callback.
FairSpec == Spec /\ WF_vars(Step)

\* ---------------------------------------------------------------- claims
Running == pc # "idle"

\* Positions of the running invocation's target list.
Positions == { j \in Idx : j < Len(metas) }

Looked(j) == lookupRes[j] # "none"

MintTried(j) == mintRes[j] # "none"

LoadedDone(j) == Truthy(loaded[j].txId)

\* The loop has left index j behind.
Past(j) == j \in Positions /\ (i > j \/ pc = "done")

\* C1: an index whose entry in the cache loaded at start has a txId gets no
\* metadata lookup and no mint attempt in this invocation, and a cache file
\* entry with a txId is never changed by any step, so the later invocations
\* sharing the file load it again and skip the index again.
C1_SkipRule ==
    /\ [](\A j \in Idx : LoadedDone(j) => ~Looked(j) /\ ~MintTried(j))
    /\ [][\A j \in Idx : Truthy(file[j].txId) => file'[j] = file[j]]_vars

\* An invocation completed, skipping a loaded success and processing another index.
C1_Witness ==
    /\ pc = "done"
    /\ \E j, k \in Positions : LoadedDone(j) /\ ~LoadedDone(k) /\ Looked(k)

\* C2: an invocation whose loaded cache has a txId at every position of its
\* target list makes no lookup and no mint attempt, and its cache, in memory
\* and in the file, stays the cache it loaded.
C2_Idempotence ==
    (Running /\ \A j \in Positions : LoadedDone(j))
        => /\ \A j \in Idx : ~Looked(j) /\ ~MintTried(j)
           /\ cache = loaded
           /\ file = loaded

\* The re-run of a two-target list, every target minted before, is complete.
C2_Witness ==
    /\ pc = "done"
    /\ Len(metas) = 2
    /\ \A j \in Positions : LoadedDone(j) /\ loaded[j].target = metas[j + 1].path

\* C3: throughout an invocation the entry of every index loaded with a txId
\* is the loaded entry, in memory and in the file, and an invocation that
\* completes has looked up every other position of its list.
C3_PartialResume ==
    Running =>
        /\ \A j \in Idx : LoadedDone(j) => cache[j] = loaded[j] /\ file[j] = loaded[j]
        /\ pc = "done" => \A j \in Positions : ~LoadedDone(j) => Looked(j)

\* Index 0 succeeded earlier, index 1 was absent and has now been recorded.
C3_Witness ==
    /\ pc = "done"
    /\ Len(metas) = 2
    /\ LoadedDone(0)
    /\ loaded[1] = Absent
    /\ Looked(1)
    /\ cache[1] # Absent
    /\ cache[0] = loaded[0]

\* C4: when every mint call of a target with resolved metadata fails, the
\* calls number 5 with retry and 1 with --no-retry, and the entry recorded
\* for the index has the error 'Failed to mint' and no txId.
C4_RetryExhaustion ==
    (Running /\ lookupRes[cur] = "ok" /\ mintRes[cur] = "exhausted")
        => /\ Len(calls) = (IF retry THEN 5 ELSE 1)
           /\ \A n \in 1..Len(calls) : calls[n] = "fail"
           /\ cache[cur].error = "Failed to mint"
           /\ cache[cur].txId = NoVal

\* Five failed calls with retry enabled, and the failure recorded.
C4_Witness ==
    /\ pc = "loop"
    /\ retry
    /\ lookupRes[cur] = "ok"
    /\ mintRes[cur] = "exhausted"
    /\ Len(calls) = 5

\* C5: when a mint call of a target with resolved metadata succeeds, it is
\* the last call made for the target, every call before it failed, they are
\* at most the attempt budget, and the entry recorded holds the receipt's
\* txId, mint and metadata, the looked-up name, and no error.
C5_RetrySuccess ==
    (Running /\ lookupRes[cur] = "ok" /\ mintRes[cur] = "minted")
        => /\ Len(calls) \in 1..(IF retry THEN 5 ELSE 1)
           /\ calls[Len(calls)] = "ok"
           /\ \A n \in 1..(Len(calls) - 1) : calls[n] = "fail"
           /\ pc # "record" =>
                 cache[cur] = MkResult(metas[cur + 1].path,
                                       MintResponse(metas[cur + 1].path).txId,
                                       MintResponse(metas[cur + 1].path).mint,
                                       MintResponse(metas[cur + 1].path).metadata,
                                       NoVal,
                                       MetaOf(metas[cur + 1].path))

\* Two failed calls, then a success on the third, recorded.
C5_Witness ==
    /\ pc = "loop"
    /\ lookupRes[cur] = "ok"
    /\ mintRes[cur] = "minted"
    /\ calls = << "fail", "fail", "ok" >>
    /\ Truthy(cache[cur].txId)

\* C6: once the loop has left a URI target whose lookup failed or whose
\* payload was invalid, the cache holds an entry for the index with the error
\* 'Failed to fetch metadata' or 'Invalid metadata' and no txId.
C6_MetadataFailureRecorded ==
    \A j \in Idx :
        (Past(j) /\ lookupRes[j] \in {"throw", "invalid"})
            => /\ cache[j].error = (IF lookupRes[j] = "throw"
                                    THEN "Failed to fetch metadata"
                                    ELSE "Invalid metadata")
               /\ cache[j].txId = NoVal

\* A processed target that ended in a per-item failure: its mint attempts
\* were exhausted, or its metadata did not resolve and nothing was minted.
ItemFailed(j) ==
    /\ Past(j)
    /\ \/ mintRes[j] = "exhausted"
       \/ lookupRes[j] \in {"throw", "invalid"} /\ mintRes[j] = "none"

\* C7: the error total reported at the end of an invocation is the number of
\* processed targets that ended in a per-item failure.
C7_AggregateErrorCount ==
    pc = "done" => errors = Cardinality({ j \in Idx : ItemFailed(j) })

\* C8: a mint attempt is made for an index only after its lookup returned a
\* payload that passed validation in the same invocation.
C8_MintOnlyAfterResolution ==
    \A j \in Idx : MintTried(j) => lookupRes[j] = "ok"

\* C9: with a retry-cache path, the cache file has an entry for every index
\* the loop has processed and left behind, whatever the outcome.
C9_CheckpointDurability ==
    (Running /\ retryCache) =>
        \A j \in Idx : (Past(j) /\ Looked(j)) => file[j] # Absent

\* C10: with a retry-cache path, every index minted in this invocation, other
\* than the index being processed, has its receipt's txId in the cache file.
C10_CrashLosesInFlight ==
    (Running /\ retryCache) =>
        \A j \in Idx :
            mintRes[j] = "minted" =>
                \/ j = i /\ pc \in {"lookup", "mint", "sleep", "record"}
                \/ /\ Truthy(file[j].txId)
                   /\ file[j].txId = MintResponse(metas[j + 1].path).txId

\* Index 0 minted and saved; index 1 minted and not yet saved.
C10_Witness ==
    /\ retryCache
    /\ pc = "record"
    /\ i = 1
    /\ mintRes[0] = "minted"
    /\ mintRes[1] = "minted"
    /\ Truthy(file[0].txId)
    /\ ~Truthy(file[1].txId)

\* C11: a target of kind File that is not skipped stops the run where it is:
\* the loop never gets past it and never reaches the summary, no lookup and
\* no mint attempt is made for it or for a later index, no result is recorded
\* for it, the step that aborts changes neither the cache, the cache file nor
\* the error counter, and after the abort the process only ends.
C11_FileTargetAborts ==
    /\ [](\A j \in Positions :
              (metas[j + 1].type = "File" /\ ~LoadedDone(j))
                  => /\ i <= j
                     /\ pc # "done"
                     /\ \A k \in Idx :
                           k >= j => /\ ~Looked(k)
                                     /\ ~MintTried(k)
                                     /\ cache[k] = loaded[k])
    /\ [][(/\ pc = "loop"
           /\ i < Len(metas)
           /\ metas[i + 1].type = "File"
           /\ ~Truthy(cache[i].txId)) => pc' \in {"aborted", "idle"}]_vars
    /\ [][pc' = "aborted" => file' = file /\ cache' = cache /\ errors' = errors]_vars
    /\ [][pc = "aborted" => pc' = "idle"]_vars

\* Index 0 was minted and saved in this run, index 1 is a File target: aborted.
C11_Witness ==
    /\ pc = "aborted"
    /\ retryCache
    /\ i = 1
    /\ metas[2].type = "File"
    /\ mintRes[0] = "minted"
    /\ Truthy(file[0].txId)
    /\ file[1] = Absent

\* No target of kind File will be entered by the running invocation.
NoFileAhead ==
    \A j \in Positions : metas[j + 1].type = "File" => LoadedDone(j)

\* C12: the iterations of a run are the indices 0, 1, 2, ... in this order,
\* each once; the loop variable is the number of iterations finished; a
\* completed run has made one iteration for every target; and when every
\* external call returns, a run with no File target to enter goes on, past
\* every per-item failure, until it reports the error count, unless the
\* process is interrupted.
C12_EveryTargetOnce ==
    /\ [](\A n \in 1..Len(visited) : visited[n].idx = n - 1)
    /\ [](Running => Len(visited) = (IF pc \in {"loop", "done"} THEN i ELSE i + 1))
    /\ [](pc = "done" => Len(visited) = Len(metas))
    /\ (Running /\ NoFileAhead) ~> (pc \in {"done", "idle"})

\* A completed two-target run whose first target failed and whose second was minted.
C12_Witness ==
    /\ pc = "done"
    /\ Len(metas) = 2
    /\ Len(visited) = 2
    /\ lookupRes[0] \in {"throw", "invalid"}
    /\ mintRes[0] = "none"
    /\ mintRes[1] = "minted"

\* A result that is either a failure (error, and none of txId, mint,
\* metadata, name) or a success (all four, and no error).
Unambiguous(r) ==
    \/ /\ Truthy(r.error)
       /\ r.txId = NoVal /\ r.mint = NoVal /\ r.metadata = NoVal /\ r.name = NoVal
    \/ /\ r.error = NoVal
       /\ Truthy(r.txId) /\ Truthy(r.mint) /\ Truthy(r.metadata) /\ Truthy(r.name)

\* C13: every entry of the retry cache, in memory and in the file, is
\* unambiguous: a failure or a success, never both and never neither.
C13_ResultUnambiguous ==
    \A j \in Idx :
        /\ cache[j] # Absent => Unambiguous(cache[j])
        /\ file[j] # Absent => Unambiguous(file[j])

\* C14: the environment loadConfig resolves is the --env given on the
\* command line, otherwise the env of the config file, and loading is fatal
\* for want of an environment exactly when there is neither.
C14_EnvResolutionOrder ==
    /\ cpc = "loaded" =>
          /\ ctx.env = (IF argv.env # NoVal THEN argv.env ELSE configRaw.env)
          /\ (argv.rpcUrl = NoVal /\ configRaw.rpcUrl[ctx.env] = NoVal)
                => ctx.rpcUrl = ClusterApiUrl(IF argv.env # NoVal THEN argv.env
                                              ELSE configRaw.env)
    /\ (cpc = "fatal" /\ configRaw.readable
            /\ (argv.keypair # NoVal \/ configRaw.keypair # NoVal))
          => (argv.env = NoVal /\ configRaw.env = NoVal)

\* C15: an index loaded without a txId, absent or carrying only an error, is
\* entered and looked up again once the loop gets to it, and if the lookup
\* resolves the mint is attempted until it succeeds or the whole budget of 5
\* (1 with --no-retry) calls has failed.
C15_FailedEntriesRetried ==
    /\ \A n \in 1..Len(visited) :
          ~LoadedDone(visited[n].idx) => ~visited[n].skipped
    /\ \A j \in Idx :
          (Past(j) /\ ~LoadedDone(j))
              => /\ Looked(j)
                 /\ lookupRes[j] = "ok" => mintRes[j] \in {"minted", "exhausted"}
    /\ (Running /\ ~LoadedDone(cur) /\ loaded[cur] # Absent /\ lookupRes[cur] = "ok"
            /\ pc \in {"loop", "done"})
          => \/ mintRes[cur] = "minted" /\ calls[Len(calls)] = "ok"
             \/ /\ mintRes[cur] = "exhausted"
                /\ Len(calls) = (IF retry THEN 5 ELSE 1)

\* An index loaded with 'Failed to mint' was looked up again and minted on
\* the fifth call of this run.
C15_Witness ==
    /\ pc = "done"
    /\ loaded[0].error = "Failed to mint"
    /\ ~LoadedDone(0)
    /\ lookupRes[0] = "ok"
    /\ mintRes[0] = "minted"
    /\ Len(calls) = 5
    /\ cur = 0

\* The failed mintNFT calls made so far for index cur.
Fails == Cardinality({ n \in 1..Len(calls) : calls[n] = "fail" })

\* C16: in the retry loop of a target a wait follows a failed attempt exactly
\* when an attempt remains, and it is over before the next attempt is made:
\* at every attempt each failure so far has had its wait; during a wait the
\* last call has failed and the budget is not used up; a target minted after
\* f failures has waited f times, and one whose attempts are exhausted after
\* f failures has waited f - 1 times, with no wait after the last failure.
C16_BackoffPlacement ==
    /\ pc = "mint" => sleeps = Fails
    /\ pc = "sleep" =>
          /\ calls[Len(calls)] = "fail"
          /\ Len(calls) < (IF retry THEN 5 ELSE 1)
          /\ sleeps = Fails - 1
    /\ (Running /\ mintRes[cur] = "minted") => sleeps = Fails /\ sleeps = Len(calls) - 1
    /\ (pc = "record" /\ mintRes[cur] # "minted") \/ (Running /\ mintRes[cur] = "exhausted")
          => /\ Fails = Len(calls)
             /\ sleeps = Fails - 1

\* Five failed attempts and four waits: none after the last failure.
C16_Witness ==
    /\ pc = "record"
    /\ mintRes[cur] = "failing"
    /\ Fails = 5
    /\ sleeps = 4

\* C17: the error counter is the number of targets of this run whose mint
\* attempts were all exhausted, one per such target however many attempts
\* failed, nothing for a target minted after failed attempts and nothing for
\* a skipped one; it is at most the number of targets entered, and within a
\* run it never decreases and grows by one at a time.
C17_ErrorCounterGranularity ==
    /\ [](Running =>
            /\ errors = Cardinality({ j \in Idx : mintRes[j] = "exhausted" })
            /\ errors <= Cardinality({ n \in 1..Len(visited) : ~visited[n].skipped }))
    /\ [][(Running /\ pc' # "idle") => errors' \in {errors, errors + 1}]_vars
    /\ [][(pc = "record" /\ pc' = "loop")
             => errors' = (IF \E n \in 1..Len(calls) : calls[n] = "ok"
                           THEN errors ELSE errors + 1)]_vars

\* A completed run with retry: index 0 exhausted five attempts, index 1 was
\* minted after a failed attempt; one error.
C17_Witness ==
    /\ pc = "done"
    /\ retry
    /\ mintRes[0] = "exhausted"
    /\ mintRes[1] = "minted"
    /\ cur = 1
    /\ Fails > 0
    /\ errors = 1

\* C18: an iteration is a skip exactly when the loaded entry at its position
\* has a txId, whatever the target at that position: the skipped indices of a
\* run are a function of the loaded cache and of how far the loop got, the
\* same for every target list.
C18_IndexKeyedSkip ==
    \A n \in 1..Len(visited) :
        visited[n].skipped <=> LoadedDone(visited[n].idx)

\* Target b, which no loaded entry names, was skipped at position 0, where
\* the loaded entry is the success of target a.
C18_Witness ==
    /\ pc = "done"
    /\ visited[1].skipped
    /\ metas[1].path = "b"
    /\ loaded[0].target = "a"
    /\ \A k \in Idx : loaded[k].target # "b"

\* The result this run builds for index j, from what this run did: the
\* current target, then either the receipt of the successful call with the
\* name of the payload attached at that time (and the error of a lookup that
\* threw), or the error of the exhausted retries alone.
BuiltInThisRun(j) ==
    LET p == metas[j + 1].path
    IN  IF mintRes[j] = "minted"
        THEN MkResult(p,
                      MintResponse(p).txId,
                      MintResponse(p).mint,
                      MintResponse(p).metadata,
                      IF lookupRes[j] = "throw" THEN "Failed to fetch metadata" ELSE NoVal,
                      IF lookupRes[j] = "ok" THEN MetaOf(p) ELSE PreMeta(p))
        ELSE MkResult(p, NoVal, NoVal, NoVal, "Failed to mint", NoVal)

TypeOK ==
    /\ pc \in {"idle", "loop", "lookup", "mint", "sleep", "record", "done", "aborted"}
    /\ i \in 0 .. MaxTargets
    /\ errors \in 0 .. MaxTargets
    /\ retries \in 0 .. 5
    /\ Len(calls) \in 0 .. 5
====
